---- MODULE Spec2Model ----
(***************************************************************************)
(* Metrics engine of QuickBlog-tool (src/tool.js and its near-duplicate    *)
(* src/unnamed/part_000): line counts, Halstead, cyclomatic complexity,    *)
(* information flow, declared/used variables, and the aggregating main     *)
(* loop with its derived indices.                                          *)
(*                                                                         *)
(* A syntax tree is a sequence of nodes numbered in source (pre-)order;    *)
(* each node carries its acorn node type, the one string field the         *)
(* visitors read (identifier name, operator, literal text, callee name)    *)
(* and the index of its parent (0 is the Program root).  Nodes of types no *)
(* visitor handles and that hold nothing of interest are left out.         *)
(*                                                                         *)
(* acorn-walk's simple() and ancestor() both run                           *)
(*     baseVisitor[type](node, st, c); if (visitors[type]) visitors[type]  *)
(* i.e. the base walker descends into the children FIRST and the visitor   *)
(* callback of a node runs when its subtree is finished (post-order).      *)
(***************************************************************************)
EXTENDS Integers, Sequences, FiniteSets, TLC

\* ------------------------------------------------------------------ bounds
MaxNodes == 3

\* ------------------------------------------------------------------ state
VARIABLES
    pc,               \* which function is running / where it is
    ast,              \* the syntax tree under analysis
    todo,             \* the walker's position: nodes whose callback is still to run
    functions,        \* infoFlow: Map name -> {fanIn, fanOut}
    currentFunction,  \* infoFlow: the scope marker
    callLog,          \* infoFlow: call node -> the caller line 144 charged it to
    ifm,              \* infoFlow: the returned summary
    cc,               \* cyclomatic: the counter
    operators,        \* halstead: Set of operator symbols
    operands,         \* halstead: Set of operand texts
    N1,               \* halstead: operator occurrences
    N2,               \* halstead: operand occurrences
    h,                \* halstead: the returned record
    code,             \* locMetrics: the text
    lines,            \* locMetrics: code.split("\n")
    li,               \* locMetrics: the loop's next line
    blank,            \* locMetrics: counter
    comment,          \* locMetrics: counter
    loc,              \* locMetrics: the returned record
    files,            \* main: scanFiles(root)
    fi,               \* main: the loop's next file
    locArr,           \* main: code lines per file
    ccTotal,          \* main: cyclomatic sum
    totalHalstead,    \* main: Halstead sums
    infoFlowSummary,  \* main: information-flow sums
    liveTotals,       \* main: totalVarsDeclared, totalLiveVars, maxLiveVars,
                      \*       totalLOCForLive, liveFileCount
    report,           \* main: totalLOC, disp, MI and the printed averages
    part000           \* the other entry point's callback (src/unnamed/part_000):
                      \* its position and the same locals, as one record

treeVars == <<pc, ast, todo>>
flowVars == <<functions, currentFunction, callLog, ifm>>
cycVars == <<cc>>
halVars == <<operators, operands, N1, N2, h>>
locVars == <<code, lines, li, blank, comment, loc>>
mainVars == <<files, fi, locArr, ccTotal, totalHalstead, infoFlowSummary, liveTotals, report,
              part000>>
vars == <<treeVars, flowVars, cycVars, halVars, locVars, mainVars>>

\* ------------------------------------------------------------------ values
\* JavaScript's undefined / null for a missing name (node.id === null,
\* node.callee.name on a callee that is no Identifier).
Undefined == "<undefined>"

Min(S) == CHOOSE x \in S : \A y \in S : x <= y

RECURSIVE SumOver(_, _)
SumOver(S, f) ==
    IF S = {} THEN 0
    ELSE LET x == CHOOSE y \in S : TRUE IN f[x] + SumOver(S \ {x}, f)

\* ------------------------------------------------------------------ numbers
\* A JavaScript number that need not be an integer: a fixed-point value
\* (v / Scale) or one of the non-finite values division can produce.
FracBits == 10
Scale == 2 ^ FracBits

Num(v) == [k |-> "num", v |-> v]
NaN == [k |-> "NaN", v |-> 0]
PosInfinity == [k |-> "+Infinity", v |-> 0]
NegInfinity == [k |-> "-Infinity", v |-> 0]
FromInt(i) == Num(i * Scale)
IsFinite(x) == x.k = "num"

\* The result of every arithmetic operation is rounded to the nearest value
\* with MantissaBits significant bits, ties to even (an IEEE double has 53).
MantissaBits == 12

Abs(v) == IF v < 0 THEN -v ELSE v

RECURSIVE BitLength(_)
BitLength(a) == IF a = 0 THEN 0 ELSE 1 + BitLength(a \div 2)

RoundSig(v) ==
    LET a == Abs(v)
        e == BitLength(a)
    IN IF e <= MantissaBits THEN v
       ELSE LET q == 2 ^ (e - MantissaBits)
                m == a \div q
                r == a - m * q
                up == 2 * r > q \/ (2 * r = q /\ m % 2 = 1)
                rounded == IF up THEN (m + 1) * q ELSE m * q
            IN IF v < 0 THEN -rounded ELSE rounded

Fl(v) == Num(RoundSig(v))

Sign(x) ==
    CASE x.k = "+Infinity" -> 1
      [] x.k = "-Infinity" -> -1
      [] x.k = "num" -> IF x.v > 0 THEN 1 ELSE IF x.v < 0 THEN -1 ELSE 0
      [] OTHER -> 0

Signed(sgn) == IF sgn > 0 THEN PosInfinity ELSE IF sgn < 0 THEN NegInfinity ELSE NaN

JsNeg(a) ==
    CASE a.k = "num" -> Num(-a.v)
      [] a.k = "NaN" -> NaN
      [] OTHER -> Signed(-Sign(a))

JsAdd(a, b) ==
    CASE a.k = "NaN" \/ b.k = "NaN" -> NaN
      [] a.k = "num" /\ b.k = "num" -> Fl(a.v + b.v)
      [] a.k = "num" -> b
      [] b.k = "num" -> a
      [] OTHER -> IF a.k = b.k THEN a ELSE NaN

JsSub(a, b) == JsAdd(a, JsNeg(b))

JsMul(a, b) ==
    CASE a.k = "NaN" \/ b.k = "NaN" -> NaN
      [] a.k = "num" /\ b.k = "num" -> Fl((a.v * b.v) \div Scale)
      [] OTHER -> Signed(Sign(a) * Sign(b))

\* a / b: 0/0 is NaN, x/0 is an infinity.
JsDiv(a, b) ==
    CASE a.k = "NaN" \/ b.k = "NaN" -> NaN
      [] a.k = "num" /\ b.k = "num" ->
            IF b.v = 0 THEN Signed(Sign(a)) ELSE Fl((a.v * Scale) \div b.v)
      [] a.k = "num" -> Num(0)
      [] b.k = "num" -> Signed(Sign(a) * (IF b.v < 0 THEN -1 ELSE 1))
      [] OTHER -> NaN

\* `x || 1`: 0 and NaN are falsy.
OrOne(x) == IF x.k = "NaN" \/ (x.k = "num" /\ x.v = 0) THEN FromInt(1) ELSE x

\* floor(sqrt(n)) for lo*lo <= n < hi*hi
RECURSIVE ISqrt(_, _, _)
ISqrt(n, lo, hi) ==
    IF hi - lo <= 1 THEN lo
    ELSE LET mid == (lo + hi) \div 2 IN
         IF mid * mid <= n THEN ISqrt(n, mid, hi) ELSE ISqrt(n, lo, mid)

JsSqrt(a) ==
    CASE a.k = "NaN" \/ Sign(a) < 0 -> NaN
      [] a.k = "num" -> Fl(ISqrt(a.v * Scale, 0, 32 * Scale))
      [] OTHER -> a

\* log2 of a positive fixed-point value: the exponent e with
\* 2^e <= x < 2^(e+1), then FracBits bits of the fraction by repeated squaring.
RECURSIVE Exponent(_, _), Fraction(_, _)
Exponent(x, e) ==
    IF x >= 2 * Scale THEN Exponent(x \div 2, e + 1)
    ELSE IF x < Scale THEN Exponent(x * 2, e - 1)
    ELSE e
Mantissa(x, e) == IF e >= 0 THEN x \div (2 ^ e) ELSE x * (2 ^ (-e))
Fraction(m, bit) ==
    IF bit > FracBits THEN 0
    ELSE LET sq == (m * m) \div Scale IN
         IF sq >= 2 * Scale
         THEN Scale \div (2 ^ bit) + Fraction(sq \div 2, bit + 1)
         ELSE Fraction(sq, bit + 1)
Log2Fixed(x) ==
    LET e == Exponent(x, 0) IN e * Scale + Fraction(Mantissa(x, e), 1)

\* Math.log2 and Math.log.
JsLog2(a) ==
    CASE a.k = "NaN" \/ Sign(a) < 0 -> NaN
      [] a.k = "+Infinity" -> PosInfinity
      [] a.v = 0 -> NegInfinity
      [] OTHER -> Fl(Log2Fixed(a.v))

\* ln x = log2 x * ln 2, ln 2 = 0.693147...
JsLog(a) ==
    LET l == JsLog2(a) IN IF l.k = "num" THEN Fl((l.v * 693) \div 1000) ELSE l

\* ------------------------------------------------------------------ trees
Node(type, name, parent) == [type |-> type, name |-> name, parent |-> parent]

\* The nodes on the path from the last node of t up to the root: where the next
\* node in source order can be attached.
RECURSIVE PathUp(_, _)
PathUp(t, i) == IF i = 0 THEN {0} ELSE {i} \cup PathUp(t, t[i].parent)

NumChildren(t, p) == Cardinality({i \in 1..Len(t) : t[i].parent = p})

\* What the parser can produce, as far as the visitors can tell: leaves are
\* leaves, operators have at most their operands, a class method's only child
\* is its anonymous FunctionExpression value (and an anonymous
\* FunctionExpression under a MethodDefinition is that value), and the one
\* FunctionDeclaration without a name is `export default function () {}`.
MaxKids(type) ==
    CASE type \in {"Identifier", "Literal", "ThisExpression"} -> 0
      [] type \in {"UnaryExpression", "UpdateExpression", "MethodDefinition"} -> 1
      [] type \in {"BinaryExpression", "LogicalExpression", "AssignmentExpression"} -> 2
      [] type = "ConditionalExpression" -> 3
      [] OTHER -> MaxNodes + 1

CanAttach(t, n) ==
    /\ n.parent = 0 \/ NumChildren(t, n.parent) < MaxKids(t[n.parent].type)
    /\ (n.parent # 0 /\ t[n.parent].type = "MethodDefinition")
          => (n.type = "FunctionExpression" /\ n.name = Undefined)
    /\ (n.type = "FunctionDeclaration" /\ n.name = Undefined)
          => /\ n.parent = 0
             /\ \A i \in 1..Len(t) :
                    ~(t[i].type = "FunctionDeclaration" /\ t[i].name = Undefined)

Complete(t) ==
    \A i \in 1..Len(t) : t[i].type = "MethodDefinition" => NumChildren(t, i) = 1

\* The nodes the parser may deliver next, in source order, for a tree over
\* the given <<type, name>> labels.
NextNodes(t, labels) ==
    { n \in { Node(l[1], l[2], p) : l \in labels, p \in PathUp(t, Len(t)) } :
        CanAttach(t, n) }

\* ------------------------------------------------------------------ the walk
\* walk.simple / walk.ancestor: the order in which the visitor callbacks run.
RECURSIVE WalkNode(_, _), WalkKids(_, _, _)
WalkKids(t, p, from) ==
    LET ks == {i \in from..Len(t) : t[i].parent = p} IN
    IF ks = {} THEN <<>>
    ELSE LET k == Min(ks) IN WalkNode(t, k) \o WalkKids(t, p, k + 1)
WalkNode(t, i) == WalkKids(t, i, i + 1) \o <<i>>

PostOrder(t) == WalkKids(t, 0, 1)

\* ------------------------------------------------------------------ infoFlow
registerFunction(fs, name) ==
    IF name \in DOMAIN fs THEN fs
    ELSE fs @@ (name :> [fanIn |-> {}, fanOut |-> {}])

\* The state of one infoFlow call while the walk runs.
FlowState(fs, cur, log) == [functions |-> fs, currentFunction |-> cur, callLog |-> log]

FlowInit == FlowState(registerFunction(<<>>, "GLOBAL"), "GLOBAL", <<>>)

\* `node.id?.name || "anonymous"`
NameOr(node, fallback) == IF node.name = Undefined THEN fallback ELSE node.name

\* "arrow@" + node.start: the start offset is the node's place in source order.
ArrowName(i) == "arrow@" \o ToString(i)

FunctionNodeName(node, i) ==
    CASE node.type = "FunctionDeclaration" -> NameOr(node, "anonymous")
      [] node.type = "FunctionExpression" -> NameOr(node, "anonymous_expr")
      [] node.type = "ArrowFunctionExpression" -> ArrowName(i)
      [] node.type = "MethodDefinition" -> node.name

\* The four function visitors: register the name, move the scope marker.
IF_Function(fl, node, i) ==
    LET name == FunctionNodeName(node, i) IN
    FlowState(registerFunction(fl.functions, name), name, fl.callLog)

\* Mutant: the call visitor without line 146 (the callee's fanIn is not updated).
IF_CallExpression_NoFanIn(fl, node, i) ==
    LET calleeName == node.name IN
    IF calleeName = Undefined THEN fl
    ELSE LET f1 == registerFunction(fl.functions, calleeName)
             cur == fl.currentFunction
             f2 == [f1 EXCEPT ![cur].fanOut = @ \cup {calleeName}]
         IN FlowState(f2, cur, fl.callLog @@ (i :> cur))

IF_CallExpression(fl, node, i) ==
    LET calleeName == node.name IN
    IF calleeName = Undefined THEN fl
    ELSE LET f1 == registerFunction(fl.functions, calleeName)
             cur == fl.currentFunction
             f2 == [f1 EXCEPT ![cur].fanOut = @ \cup {calleeName}]
             f3 == [f2 EXCEPT ![calleeName].fanIn = @ \cup {cur}]
         IN FlowState(f3, cur, fl.callLog @@ (i :> cur))

FunctionTypes ==
    {"FunctionDeclaration", "FunctionExpression", "ArrowFunctionExpression",
     "MethodDefinition"}

FlowVisit(fl, node, i) ==
    IF node.type \in FunctionTypes THEN IF_Function(fl, node, i)
    ELSE IF node.type = "CallExpression" THEN IF_CallExpression(fl, node, i)
    ELSE fl

\* Mutant: the summing loop without `if (name === "GLOBAL") continue`.
FlowSummary_CountsGlobal(fs) ==
    LET names == DOMAIN fs
        fin == [n \in names |-> Cardinality(fs[n].fanIn)]
        fout == [n \in names |-> Cardinality(fs[n].fanOut)]
        flow == [n \in names |-> fin[n] * fout[n]]
        totalFanIn == SumOver(names, fin)
        totalFanOut == SumOver(names, fout)
        totalInfoFlow == SumOver(names, flow)
    IN [functionCount |-> Cardinality(names),
        totalFanIn |-> totalFanIn,
        totalFanOut |-> totalFanOut,
        totalInfoFlow |-> totalInfoFlow,
        grandTotal |-> totalFanIn + totalFanOut + totalInfoFlow]

\* Lines 150-180: the totals over every entry but GLOBAL.
FlowSummary(fs) ==
    LET names == DOMAIN fs \ {"GLOBAL"}
        fin == [n \in names |-> Cardinality(fs[n].fanIn)]
        fout == [n \in names |-> Cardinality(fs[n].fanOut)]
        flow == [n \in names |-> fin[n] * fout[n]]
        functionCount == Cardinality(names)
        totalFanIn == SumOver(names, fin)
        totalFanOut == SumOver(names, fout)
        totalInfoFlow == SumOver(names, flow)
    IN [functionCount |-> functionCount,
        totalFanIn |-> totalFanIn,
        totalFanOut |-> totalFanOut,
        totalInfoFlow |-> totalInfoFlow,
        grandTotal |-> totalFanIn + totalFanOut + totalInfoFlow]

NoSummary ==
    [functionCount |-> 0, totalFanIn |-> 0, totalFanOut |-> 0,
     totalInfoFlow |-> 0, grandTotal |-> 0]

RECURSIVE FlowFold(_, _, _)
FlowFold(fl, t, order) ==
    IF order = <<>> THEN fl
    ELSE FlowFold(FlowVisit(fl, t[Head(order)], Head(order)), t, Tail(order))

infoFlow(t) == FlowSummary(FlowFold(FlowInit, t, PostOrder(t)).functions)

\* ------------------------------------------------------------------ cyclomatic
CC_IfStatement(c, node) == c + 1
CC_ForStatement(c, node) == c + 1
CC_WhileStatement(c, node) == c + 1
\* Mutant: every LogicalExpression counts, ?? included.
CC_LogicalExpression_AnyOperator(c, node) == c + 1
CC_LogicalExpression(c, node) == IF node.name = "&&" \/ node.name = "||" THEN c + 1 ELSE c
CC_ConditionalExpression(c, node) == c + 1

CycVisit(c, node) ==
    CASE node.type = "IfStatement" -> CC_IfStatement(c, node)
      [] node.type = "ForStatement" -> CC_ForStatement(c, node)
      [] node.type = "WhileStatement" -> CC_WhileStatement(c, node)
      [] node.type = "LogicalExpression" -> CC_LogicalExpression(c, node)
      [] node.type = "ConditionalExpression" -> CC_ConditionalExpression(c, node)
      [] OTHER -> c

CycTypes ==
    {"IfStatement", "ForStatement", "WhileStatement", "LogicalExpression",
     "ConditionalExpression"}

RECURSIVE CycFold(_, _, _)
CycFold(c, t, order) ==
    IF order = <<>> THEN c
    ELSE CycFold(CycVisit(c, t[Head(order)]), t, Tail(order))

cyclomatic(t) == CycFold(1, t, PostOrder(t))

\* ------------------------------------------------------------------ halstead
HalState(ops, opnds, n1, n2) ==
    [operators |-> ops, operands |-> opnds, N1 |-> n1, N2 |-> n2]

HalInit == HalState({}, {}, 0, 0)

\* BinaryExpression, LogicalExpression, UnaryExpression, AssignmentExpression,
\* UpdateExpression: operators.add(n.operator); N1++
H_Operator(hs, node) ==
    HalState(hs.operators \cup {node.name}, hs.operands, hs.N1 + 1, hs.N2)

\* Identifier: operands.add(n.name); N2++   Literal: operands.add(String(n.value)); N2++
H_Operand(hs, node) ==
    HalState(hs.operators, hs.operands \cup {node.name}, hs.N1, hs.N2 + 1)

OperatorTypes ==
    {"BinaryExpression", "LogicalExpression", "UnaryExpression",
     "AssignmentExpression", "UpdateExpression"}
OperandTypes == {"Identifier", "Literal"}

\* The callee of a call with a plain-identifier callee is an Identifier node
\* of the tree, which the walk visits as any other.
HasCalleeIdentifier(node) == node.type = "CallExpression" /\ node.name # Undefined

HalVisit(hs, node) ==
    IF node.type \in OperatorTypes THEN H_Operator(hs, node)
    ELSE IF node.type \in OperandTypes \/ HasCalleeIdentifier(node) THEN H_Operand(hs, node)
    ELSE hs

\* Mutant: the logarithm taken of n + 1.
Volume_LogOfNPlusOne(n, N) ==
    IF n # 0 THEN JsMul(FromInt(N), JsLog2(FromInt(n + 1))) ELSE FromInt(0)

\* const volume = n ? N * Math.log2(n) : 0;
Volume(n, N) == IF n # 0 THEN JsMul(FromInt(N), JsLog2(FromInt(n))) ELSE FromInt(0)

\* const difficulty = n2 ? (n1 / 2) * (N2 / n2) : 0;
Difficulty(n1, n2, NN2) ==
    IF n2 # 0
    THEN JsMul(JsDiv(FromInt(n1), FromInt(2)), JsDiv(FromInt(NN2), FromInt(n2)))
    ELSE FromInt(0)

HalResult(hs) ==
    LET n1 == Cardinality(hs.operators)
        n2 == Cardinality(hs.operands)
        n == n1 + n2
        N == hs.N1 + hs.N2
        volume == Volume(n, N)
        difficulty == Difficulty(n1, n2, hs.N2)
        effort == JsMul(volume, difficulty)
    IN [n1 |-> n1, n2 |-> n2, N1 |-> hs.N1, N2 |-> hs.N2, n |-> n, N |-> N,
        volume |-> volume, difficulty |-> difficulty, effort |-> effort,
        time |-> JsDiv(effort, FromInt(18)),
        bugs |-> JsDiv(volume, FromInt(3000))]

RECURSIVE HalFold(_, _, _)
HalFold(hs, t, order) ==
    IF order = <<>> THEN hs
    ELSE HalFold(HalVisit(hs, t[Head(order)]), t, Tail(order))

halstead(t) == HalResult(HalFold(HalInit, t, PostOrder(t)))

\* ------------------------------------------------------------------ liveVariableStats
\* declared: the names of the VariableDeclarator nodes; used: the names the
\* Identifier callback sees (a declarator's own id is walked as a pattern,
\* not as an Identifier).
liveVariableStats(t, nloc) ==
    LET declared == {t[i].name : i \in {j \in 1..Len(t) : t[j].type = "VariableDeclarator"}}
        used == {t[i].name : i \in {j \in 1..Len(t) :
                                      t[j].type = "Identifier" \/ HasCalleeIdentifier(t[j])}}
    IN [declared |-> Cardinality(declared),
        live |-> Cardinality(declared \cap used),
        loc |-> nloc]

\* ------------------------------------------------------------------ locMetrics
\* A text is a sequence of characters; "x" stands for any character that is
\* neither white space nor part of a comment marker.
Whitespace == {" ", "\t"}

\* code.split("\n")
RECURSIVE Split(_, _)
Split(text, cur) ==
    IF text = <<>> THEN <<cur>>
    ELSE IF Head(text) = "\n" THEN <<cur>> \o Split(Tail(text), <<>>)
    ELSE Split(Tail(text), Append(cur, Head(text)))

RECURSIVE TrimStart(_), TrimEnd(_)
TrimStart(l) == IF l # <<>> /\ Head(l) \in Whitespace THEN TrimStart(Tail(l)) ELSE l
TrimEnd(l) ==
    IF l # <<>> /\ l[Len(l)] \in Whitespace THEN TrimEnd(SubSeq(l, 1, Len(l) - 1)) ELSE l
Trim(l) == TrimEnd(TrimStart(l))

StartsWith(t, prefix) ==
    Len(t) >= Len(prefix) /\ SubSeq(t, 1, Len(prefix)) = prefix

\* Mutant: the comment test on the line as read, not on its trimmed form.
IsComment_Untrimmed(l) ==
    StartsWith(l, <<"/", "/">>) \/ StartsWith(l, <<"/", "*">>) \/ StartsWith(l, <<"*">>)

\* if (!t) blank++;
IsBlank(l) == Trim(l) = <<>>
\* else if (t.startsWith("//") || t.startsWith("/*") || t.startsWith("*")) comment++;
IsComment(l) ==
    LET t == Trim(l) IN
    StartsWith(t, <<"/", "/">>) \/ StartsWith(t, <<"/", "*">>) \/ StartsWith(t, <<"*">>)

LocCount(nblank, ncomment) == [blank |-> nblank, comment |-> ncomment]

LocLine(c, l) ==
    IF IsBlank(l) THEN LocCount(c.blank + 1, c.comment)
    ELSE IF IsComment(l) THEN LocCount(c.blank, c.comment + 1)
    ELSE c

LocResult(ls, c) ==
    [total |-> Len(ls), blank |-> c.blank, comment |-> c.comment,
     code |-> Len(ls) - c.blank - c.comment]

RECURSIVE LocFold(_, _)
LocFold(c, ls) == IF ls = <<>> THEN c ELSE LocFold(LocLine(c, Head(ls)), Tail(ls))

locMetrics(text) ==
    LET ls == Split(text, <<>>) IN LocResult(ls, LocFold(LocCount(0, 0), ls))

\* ------------------------------------------------------------------ dispersion
RECURSIVE SumSeq(_), SumSquares(_, _)
\* arr.reduce((a,b)=>a+b,0)
SumSeq(arr) == IF arr = <<>> THEN 0 ELSE Head(arr) + SumSeq(Tail(arr))
\* arr.reduce((a,b)=>a+(b-mean)**2,0)
SumSquares(arr, mean) ==
    IF arr = <<>> THEN FromInt(0)
    ELSE LET d == JsSub(FromInt(arr[Len(arr)]), mean) IN
         JsAdd(SumSquares(SubSeq(arr, 1, Len(arr) - 1), mean), JsMul(d, d))

dispersion(arr) ==
    LET mean == JsDiv(FromInt(SumSeq(arr)), FromInt(Len(arr)))
        variance == JsDiv(SumSquares(arr, mean), FromInt(Len(arr)))
    IN [mean |-> mean, variance |-> variance, stdDev |-> JsSqrt(variance)]

\* ------------------------------------------------------------------ main
Decimal(a, b) == Fl((a * Scale) \div b)

\* The three terms of the index.
\* 5.2 * Math.log(totalHalstead.volume || 1)
VolumeTerm(volume) == JsMul(Decimal(52, 10), JsLog(OrOne(volume)))
\* 0.23 * ccTotal
ComplexityTerm(cct) == JsMul(Decimal(23, 100), FromInt(cct))
\* 16.2 * Math.log(totalLOC || 1)
SizeTerm(totalLOC) == JsMul(Decimal(162, 10), JsLog(OrOne(FromInt(totalLOC))))

\* Variant: the other entry point with the sign convention of tool.js.
MaintainabilityIndexPart_SameSign(volume, cct, totalLOC) ==
    JsSub(JsSub(JsSub(FromInt(171), VolumeTerm(volume)), ComplexityTerm(cct)),
          SizeTerm(totalLOC))

\* part_000: 5.2 ln(volume || 1) + 0.23 ccTotal + 16.2 ln(totalLOC || 1) - 171
MaintainabilityIndexPart(volume, cct, totalLOC) ==
    JsSub(JsAdd(JsAdd(VolumeTerm(volume), ComplexityTerm(cct)), SizeTerm(totalLOC)),
          FromInt(171))

\* tool.js: 171 - 5.2 ln(volume || 1) - 0.23 ccTotal - 16.2 ln(totalLOC || 1)
MaintainabilityIndex(volume, cct, totalLOC) ==
    JsSub(JsSub(JsSub(FromInt(171),
                      JsMul(Decimal(52, 10), JsLog(OrOne(volume)))),
                JsMul(Decimal(23, 100), FromInt(cct))),
          JsMul(Decimal(162, 10), JsLog(OrOne(FromInt(totalLOC)))))

HalsteadZero ==
    [N1 |-> 0, N2 |-> 0, n1 |-> 0, n2 |-> 0, volume |-> FromInt(0),
     effort |-> FromInt(0), time |-> FromInt(0), bugs |-> FromInt(0)]

LiveZero ==
    [totalVarsDeclared |-> 0, totalLiveVars |-> 0, maxLiveVars |-> 0,
     totalLOCForLive |-> 0, liveFileCount |-> 0]

NoReport ==
    [filesAnalyzed |-> 0, totalLOC |-> 0, disp |-> dispersion(<<0>>),
     MI |-> FromInt(0), avgFanIn |-> FromInt(0), avgFanOut |-> FromInt(0),
     avgLive |-> FromInt(0)]

\* part_000, lines 207-224: the locals of its callback before the loop.
PartInit ==
    [pc |-> "main", fi |-> 1, locArr |-> <<>>, ccTotal |-> 0,
     totalHalstead |-> HalsteadZero, infoFlowSummary |-> NoSummary,
     liveTotals |-> LiveZero, report |-> NoReport]

AddHalstead(tot, hr) ==
    [N1 |-> tot.N1 + hr.N1, N2 |-> tot.N2 + hr.N2,
     n1 |-> tot.n1 + hr.n1, n2 |-> tot.n2 + hr.n2,
     volume |-> JsAdd(tot.volume, hr.volume),
     effort |-> JsAdd(tot.effort, hr.effort),
     time |-> JsAdd(tot.time, hr.time),
     bugs |-> JsAdd(tot.bugs, hr.bugs)]

AddInfoFlow(tot, r) ==
    [functionCount |-> tot.functionCount + r.functionCount,
     totalFanIn |-> tot.totalFanIn + r.totalFanIn,
     totalFanOut |-> tot.totalFanOut + r.totalFanOut,
     totalInfoFlow |-> tot.totalInfoFlow + r.totalInfoFlow,
     grandTotal |-> tot.grandTotal + r.grandTotal]

AddLive(tot, lv) ==
    [totalVarsDeclared |-> tot.totalVarsDeclared + lv.declared,
     totalLiveVars |-> tot.totalLiveVars + lv.live,
     maxLiveVars |-> IF lv.live > tot.maxLiveVars THEN lv.live ELSE tot.maxLiveVars,
     totalLOCForLive |-> tot.totalLOCForLive + lv.loc,
     liveFileCount |-> tot.liveFileCount + 1]

\* ------------------------------------------------------------------ idle values
\* What each function's locals hold when it is entered.
FlowIdle ==
    /\ functions = FlowInit.functions
    /\ currentFunction = FlowInit.currentFunction
    /\ callLog = FlowInit.callLog
    /\ ifm = NoSummary
CycIdle == cc = 1
HalIdle ==
    /\ operators = {}
    /\ operands = {}
    /\ N1 = 0
    /\ N2 = 0
    /\ h = HalResult(HalInit)
LocIdle ==
    /\ code = <<>>
    /\ lines = <<>>
    /\ li = 1
    /\ blank = 0
    /\ comment = 0
    /\ loc = LocResult(<<>>, LocCount(0, 0))
MainIdle ==
    /\ files = <<>>
    /\ fi = 1
    /\ locArr = <<>>
    /\ ccTotal = 0
    /\ totalHalstead = HalsteadZero
    /\ infoFlowSummary = NoSummary
    /\ liveTotals = LiveZero
    /\ report = NoReport
    /\ part000 = PartInit

\* ------------------------------------------------------------------ parsing
\* acorn.parse(content): the tree grows node by node in source order.
ParseNode(labels) ==
    /\ pc = "parse"
    /\ Len(ast) < MaxNodes
    /\ \E n \in NextNodes(ast, labels) : ast' = Append(ast, n)
    /\ UNCHANGED <<pc, todo>>

\* The parser returns; the walk is handed the whole tree.
StartWalk(fn) ==
    /\ pc = "parse"
    /\ Complete(ast)
    /\ pc' = fn
    /\ todo' = PostOrder(ast)
    /\ UNCHANGED ast

Walking(fn) == pc = fn /\ todo # <<>>

\* ---- infoFlow, one visitor callback at a time
FnNames == {"a", "b"}
CalleeNames == {"a", "b", "GLOBAL"}

FlowLabels ==
    ({"FunctionDeclaration", "FunctionExpression"} \X (FnNames \cup {Undefined}))
    \cup {<<"ArrowFunctionExpression", Undefined>>}
    \cup ({"MethodDefinition"} \X {"a"})
    \cup ({"CallExpression"} \X (CalleeNames \cup {Undefined}))
    \cup {<<"IfStatement", Undefined>>}

InitFlow ==
    /\ ast = <<>>
    /\ pc = "parse"
    /\ todo = <<>>
    /\ FlowIdle
    /\ CycIdle
    /\ HalIdle
    /\ LocIdle
    /\ MainIdle

ParseFlow == ParseNode(FlowLabels) /\ UNCHANGED <<flowVars, cycVars, halVars, locVars, mainVars>>
StartFlow == StartWalk("infoFlow") /\ UNCHANGED <<flowVars, cycVars, halVars, locVars, mainVars>>

Visiting(types) ==
    /\ Walking("infoFlow")
    /\ ast[Head(todo)].type \in types

FlowApply ==
    LET i == Head(todo)
        fl == FlowVisit(FlowState(functions, currentFunction, callLog), ast[i], i)
    IN /\ functions' = fl.functions
       /\ currentFunction' = fl.currentFunction
       /\ callLog' = fl.callLog
       /\ todo' = Tail(todo)
       /\ UNCHANGED <<pc, ast, ifm, cycVars, halVars, locVars, mainVars>>

VisitFunctionDeclaration == Visiting({"FunctionDeclaration"}) /\ FlowApply
VisitFunctionExpression == Visiting({"FunctionExpression"}) /\ FlowApply
VisitArrowFunctionExpression == Visiting({"ArrowFunctionExpression"}) /\ FlowApply
VisitMethodDefinition == Visiting({"MethodDefinition"}) /\ FlowApply
VisitCallExpression == Visiting({"CallExpression"}) /\ FlowApply
\* a node the visitor object has no callback for
VisitUnhandled ==
    /\ pc = "infoFlow"
    /\ todo # <<>>
    /\ ast[Head(todo)].type \notin FunctionTypes \cup {"CallExpression"}
    /\ todo' = Tail(todo)
    /\ UNCHANGED <<pc, ast, flowVars, cycVars, halVars, locVars, mainVars>>

FlowReturn ==
    /\ pc = "infoFlow"
    /\ todo = <<>>
    /\ ifm' = FlowSummary(functions)
    /\ pc' = "infoFlowDone"
    /\ UNCHANGED <<ast, todo, functions, currentFunction, callLog, cycVars, halVars, locVars, mainVars>>

NextFlow ==
    \/ ParseFlow
    \/ StartFlow
    \/ VisitFunctionDeclaration
    \/ VisitFunctionExpression
    \/ VisitArrowFunctionExpression
    \/ VisitMethodDefinition
    \/ VisitCallExpression
    \/ VisitUnhandled
    \/ FlowReturn

SpecFlow == InitFlow /\ [][NextFlow]_vars

\* ---- cyclomatic, one visitor callback at a time
CycLabels ==
    ({"IfStatement", "ForStatement", "WhileStatement", "ConditionalExpression",
      "SwitchCase", "CatchClause", "DoWhileStatement", "ForInStatement",
      "ForOfStatement"} \X {Undefined})
    \cup ({"LogicalExpression"} \X {"&&", "||", "??"})

InitCyc ==
    /\ ast = <<>>
    /\ pc = "parse"
    /\ todo = <<>>
    /\ FlowIdle
    /\ CycIdle
    /\ HalIdle
    /\ LocIdle
    /\ MainIdle

ParseCyc == ParseNode(CycLabels) /\ UNCHANGED <<flowVars, cycVars, halVars, locVars, mainVars>>
StartCyc == StartWalk("cyclomatic") /\ UNCHANGED <<flowVars, cycVars, halVars, locVars, mainVars>>

CycApply(type) ==
    /\ Walking("cyclomatic")
    /\ ast[Head(todo)].type = type
    /\ cc' = CycVisit(cc, ast[Head(todo)])
    /\ todo' = Tail(todo)
    /\ UNCHANGED <<pc, ast, flowVars, halVars, locVars, mainVars>>

VisitIfStatement == CycApply("IfStatement")
VisitForStatement == CycApply("ForStatement")
VisitWhileStatement == CycApply("WhileStatement")
VisitLogicalExpression == CycApply("LogicalExpression")
VisitConditionalExpression == CycApply("ConditionalExpression")
CycUnhandled ==
    /\ Walking("cyclomatic")
    /\ ast[Head(todo)].type \notin CycTypes
    /\ todo' = Tail(todo)
    /\ UNCHANGED <<pc, ast, flowVars, cycVars, halVars, locVars, mainVars>>

CycReturn ==
    /\ pc = "cyclomatic"
    /\ todo = <<>>
    /\ pc' = "cyclomaticDone"
    /\ UNCHANGED <<ast, todo, flowVars, cycVars, halVars, locVars, mainVars>>

NextCyc ==
    \/ ParseCyc
    \/ StartCyc
    \/ VisitIfStatement
    \/ VisitForStatement
    \/ VisitWhileStatement
    \/ VisitLogicalExpression
    \/ VisitConditionalExpression
    \/ CycUnhandled
    \/ CycReturn

SpecCyc == InitCyc /\ [][NextCyc]_vars

\* ---- halstead, one visitor callback at a time
HalLabels ==
    ({"BinaryExpression"} \X {"+", "-"})
    \cup {<<"LogicalExpression", "&&">>, <<"UnaryExpression", "-">>,
          <<"AssignmentExpression", "=">>, <<"UpdateExpression", "++">>}
    \cup ({"Identifier"} \X {"x", "y"})
    \cup ({"Literal"} \X {"1", "x"})
    \cup {<<"CallExpression", "x">>, <<"ThisExpression", Undefined>>}

InitHal ==
    /\ ast = <<>>
    /\ pc = "parse"
    /\ todo = <<>>
    /\ FlowIdle
    /\ CycIdle
    /\ HalIdle
    /\ LocIdle
    /\ MainIdle

ParseHal == ParseNode(HalLabels) /\ UNCHANGED <<flowVars, cycVars, halVars, locVars, mainVars>>
StartHal == StartWalk("halstead") /\ UNCHANGED <<flowVars, cycVars, halVars, locVars, mainVars>>

HalApply(types) ==
    /\ Walking("halstead")
    /\ ast[Head(todo)].type \in types
    /\ LET hs == HalVisit(HalState(operators, operands, N1, N2), ast[Head(todo)])
       IN /\ operators' = hs.operators
          /\ operands' = hs.operands
          /\ N1' = hs.N1
          /\ N2' = hs.N2
    /\ todo' = Tail(todo)
    /\ UNCHANGED <<pc, ast, h, flowVars, cycVars, locVars, mainVars>>

VisitBinaryExpression == HalApply({"BinaryExpression"})
VisitLogicalOperator == HalApply({"LogicalExpression"})
VisitUnaryExpression == HalApply({"UnaryExpression"})
VisitAssignmentExpression == HalApply({"AssignmentExpression"})
VisitUpdateExpression == HalApply({"UpdateExpression"})
VisitIdentifier == HalApply({"Identifier"})
VisitLiteral == HalApply({"Literal"})
\* the Identifier callback on the callee of a call, or no callback at all
VisitCallOrUnhandled == HalApply({"CallExpression", "ThisExpression"})

HalReturn ==
    /\ pc = "halstead"
    /\ todo = <<>>
    /\ h' = HalResult(HalState(operators, operands, N1, N2))
    /\ pc' = "halsteadDone"
    /\ UNCHANGED <<ast, todo, operators, operands, N1, N2, flowVars, cycVars, locVars, mainVars>>

NextHal ==
    \/ ParseHal
    \/ StartHal
    \/ VisitBinaryExpression
    \/ VisitLogicalOperator
    \/ VisitUnaryExpression
    \/ VisitAssignmentExpression
    \/ VisitUpdateExpression
    \/ VisitIdentifier
    \/ VisitLiteral
    \/ VisitCallOrUnhandled
    \/ HalReturn

SpecHal == InitHal /\ [][NextHal]_vars

\* ---- locMetrics, one loop iteration at a time
MaxLen == 5
Alphabet == {"\n", " ", "\t", "/", "*", "x"}
Texts == UNION { [1..k -> Alphabet] : k \in 0..MaxLen }

InitLoc ==
    /\ code \in Texts
    /\ pc = "locMetrics"
    /\ lines = <<>>
    /\ li = 1
    /\ blank = 0
    /\ comment = 0
    /\ loc = LocResult(<<>>, LocCount(0, 0))
    /\ ast = <<>>
    /\ todo = <<>>
    /\ FlowIdle
    /\ CycIdle
    /\ HalIdle
    /\ MainIdle

LocOthers == <<ast, todo, flowVars, cycVars, halVars, mainVars>>

\* const lines = code.split("\n");
LocSplit ==
    /\ pc = "locMetrics"
    /\ lines' = Split(code, <<>>)
    /\ pc' = "locLoop"
    /\ UNCHANGED <<code, li, blank, comment, loc, LocOthers>>

LocIterate(isBlank, isComment) ==
    /\ pc = "locLoop"
    /\ li <= Len(lines)
    /\ IsBlank(lines[li]) = isBlank
    /\ ~isBlank => IsComment(lines[li]) = isComment
    /\ LET c == LocLine(LocCount(blank, comment), lines[li])
       IN blank' = c.blank /\ comment' = c.comment
    /\ li' = li + 1
    /\ UNCHANGED <<pc, code, lines, loc, LocOthers>>

LocBlankLine == LocIterate(TRUE, FALSE)
LocCommentLine == LocIterate(FALSE, TRUE)
LocCodeLine == LocIterate(FALSE, FALSE)

LocReturn ==
    /\ pc = "locLoop"
    /\ li > Len(lines)
    /\ loc' = LocResult(lines, LocCount(blank, comment))
    /\ pc' = "locMetricsDone"
    /\ UNCHANGED <<code, lines, li, blank, comment, LocOthers>>

NextLoc ==
    \/ LocSplit
    \/ LocBlankLine
    \/ LocCommentLine
    \/ LocCodeLine
    \/ LocReturn

SpecLoc == InitLoc /\ [][NextLoc]_vars

\* ---- the main callback, one file at a time
MaxFiles == 3

ParseOk(t) == [ok |-> TRUE, ast |-> t]
SyntaxError == [ok |-> FALSE, ast |-> <<>>]
File(ext, content, parse) == [ext |-> ext, content |-> content, parse |-> parse]

\* `function a(){ b(); } function b(){}`
TreeAB ==
    << Node("FunctionDeclaration", "a", 0),
       Node("CallExpression", "b", 1),
       Node("FunctionDeclaration", "b", 0) >>

\* `if (x && y) x = 1;` with `var y` before it
TreeOps ==
    << Node("VariableDeclarator", "y", 0),
       Node("IfStatement", Undefined, 0),
       Node("LogicalExpression", "&&", 2),
       Node("Identifier", "x", 3),
       Node("Identifier", "y", 3),
       Node("AssignmentExpression", "=", 2),
       Node("Identifier", "x", 6),
       Node("Literal", "1", 6) >>

\* The files a scan may find: a script with two functions, a script the
\* parser rejects, a style sheet (never parsed), an empty script, a script
\* with operators and a variable.
FilePool ==
    { File(".js", <<"x", "\n", "x">>, ParseOk(TreeAB)),
      File(".js", <<"x", "\n", "/", "/", "\n", "x", "\n", "x">>, SyntaxError),
      File(".css", <<"/", "*", "\n", "x">>, SyntaxError),
      File(".js", <<>>, ParseOk(<<>>)),
      File(".js", <<"x", "\n", " ", "x", "\n">>, ParseOk(TreeOps)) }

FileLists == UNION { [1..k -> FilePool] : k \in 0..MaxFiles }

InitMain ==
    /\ files \in FileLists
    /\ pc = "main"
    /\ fi = 1
    /\ locArr = <<>>
    /\ ccTotal = 0
    /\ totalHalstead = HalsteadZero
    /\ infoFlowSummary = NoSummary
    /\ liveTotals = LiveZero
    /\ report = NoReport
    /\ part000 = PartInit
    /\ ast = <<>>
    /\ todo = <<>>
    /\ FlowIdle
    /\ CycIdle
    /\ HalIdle
    /\ LocIdle

MainOthers == <<ast, todo, flowVars, cycVars, halVars, locVars, part000>>
treeTotals == <<ccTotal, totalHalstead, infoFlowSummary, liveTotals>>

InLoop == pc = "main" /\ fi <= Len(files)

\* file.endsWith(".js")
IsScript(f) == f.ext = ".js"

\* Every iteration starts with locArr.push(locMetrics(content).code).
PushLoc == locArr' = Append(locArr, locMetrics(files[fi].content).code)

\* A script file that parses: the body of the try block runs to its end.
ProcessParsed ==
    /\ InLoop
    /\ IsScript(files[fi])
    /\ files[fi].parse.ok
    /\ PushLoc
    /\ LET t == files[fi].parse.ast
           nloc == locMetrics(files[fi].content).code
       IN /\ totalHalstead' = AddHalstead(totalHalstead, halstead(t))
          /\ ccTotal' = ccTotal + cyclomatic(t)
          /\ infoFlowSummary' = AddInfoFlow(infoFlowSummary, infoFlow(t))
          /\ liveTotals' = AddLive(liveTotals, liveVariableStats(t, nloc))
    /\ fi' = fi + 1
    /\ UNCHANGED <<pc, files, report, MainOthers>>

\* Mutant: no catch block; the parser's exception ends the run.
ProcessUnparsable_Uncaught ==
    /\ InLoop
    /\ IsScript(files[fi])
    /\ ~files[fi].parse.ok
    /\ PushLoc
    /\ pc' = "aborted"
    /\ UNCHANGED <<fi, files, treeTotals, report, MainOthers>>

\* A script file acorn.parse throws on: the catch block logs and the loop goes on.
ProcessUnparsable ==
    /\ InLoop
    /\ IsScript(files[fi])
    /\ ~files[fi].parse.ok
    /\ PushLoc
    /\ fi' = fi + 1
    /\ UNCHANGED <<pc, files, treeTotals, report, MainOthers>>

\* Any other supported file: counted for size only.
ProcessOther ==
    /\ InLoop
    /\ ~IsScript(files[fi])
    /\ PushLoc
    /\ fi' = fi + 1
    /\ UNCHANGED <<pc, files, treeTotals, report, MainOthers>>

\* Lines 288-295 and the averages the report prints.
Finish ==
    /\ pc = "main"
    /\ fi > Len(files)
    /\ LET totalLOC == SumSeq(locArr) IN
       report' =
         [filesAnalyzed |-> Len(files),
          totalLOC |-> totalLOC,
          disp |-> dispersion(locArr),
          MI |-> MaintainabilityIndex(totalHalstead.volume, ccTotal, totalLOC),
          avgFanIn |-> JsDiv(FromInt(infoFlowSummary.totalFanIn),
                             OrOne(FromInt(infoFlowSummary.functionCount))),
          avgFanOut |-> JsDiv(FromInt(infoFlowSummary.totalFanOut),
                              OrOne(FromInt(infoFlowSummary.functionCount))),
          avgLive |-> JsDiv(FromInt(liveTotals.totalLiveVars),
                            OrOne(FromInt(liveTotals.liveFileCount)))]
    /\ pc' = "mainDone"
    /\ UNCHANGED <<files, fi, locArr, treeTotals, MainOthers>>

NextMain ==
    \/ ProcessParsed
    \/ ProcessUnparsable
    \/ ProcessOther
    \/ Finish

SpecMain == InitMain /\ [][NextMain]_vars

\* ---- the callback of the other entry point (src/unnamed/part_000), run on
\* ---- the same file list
PartOthers ==
    <<pc, files, fi, locArr, treeTotals, report, ast, todo, flowVars, cycVars,
      halVars, locVars>>

PartInLoop == part000.pc = "main" /\ part000.fi <= Len(files)
PartFile == files[part000.fi]

\* locArr.push(loc.code), and on to the next file
PartPushed == [part000 EXCEPT !.locArr = Append(@, locMetrics(PartFile.content).code),
                              !.fi = @ + 1]

\* A script file that parses: h, cc, ifm and lv are computed, then folded in.
PartProcessParsed ==
    /\ PartInLoop
    /\ IsScript(PartFile)
    /\ PartFile.parse.ok
    /\ LET t == PartFile.parse.ast
           nloc == locMetrics(PartFile.content).code
           hh == halstead(t)
           c == cyclomatic(t)
           f == infoFlow(t)
           lv == liveVariableStats(t, nloc)
       IN part000' = [PartPushed EXCEPT
                        !.ccTotal = @ + c,
                        !.totalHalstead = AddHalstead(@, hh),
                        !.infoFlowSummary = AddInfoFlow(@, f),
                        !.liveTotals = AddLive(@, lv)]
    /\ UNCHANGED PartOthers

PartProcessUnparsable ==
    /\ PartInLoop
    /\ IsScript(PartFile)
    /\ ~PartFile.parse.ok
    /\ part000' = PartPushed
    /\ UNCHANGED PartOthers

PartProcessOther ==
    /\ PartInLoop
    /\ ~IsScript(PartFile)
    /\ part000' = PartPushed
    /\ UNCHANGED PartOthers

\* part_000, lines 269-276 and the average of line 306.
PartFinish ==
    /\ part000.pc = "main"
    /\ part000.fi > Len(files)
    /\ LET totalLOC == SumSeq(part000.locArr) IN
       part000' = [part000 EXCEPT
          !.pc = "mainDone",
          !.report =
            [filesAnalyzed |-> Len(files),
             totalLOC |-> totalLOC,
             disp |-> dispersion(part000.locArr),
             MI |-> MaintainabilityIndexPart(part000.totalHalstead.volume,
                                             part000.ccTotal, totalLOC),
             avgFanIn |-> NoReport.avgFanIn,
             avgFanOut |-> NoReport.avgFanOut,
             avgLive |-> JsDiv(FromInt(part000.liveTotals.totalLiveVars),
                               OrOne(FromInt(part000.liveTotals.liveFileCount)))]]
    /\ UNCHANGED PartOthers

NextPart ==
    \/ PartProcessParsed
    \/ PartProcessUnparsable
    \/ PartProcessOther
    \/ PartFinish

\* Both entry points, started on the same scan result, in any interleaving.
NextBoth == NextMain \/ NextPart

SpecBoth == InitMain /\ [][NextBoth]_vars

\* ------------------------------------------------------------------ claims on infoFlow
\* The call sites infoFlow can resolve: callee is a plain identifier.
ResolvableCallSites(t) ==
    {i \in 1..Len(t) : t[i].type = "CallExpression" /\ t[i].name # Undefined}

\* The distinct caller -> callee pairs among the call sites processed so far.
RecordedEdges == { <<callLog[i], ast[i].name>> : i \in DOMAIN callLog }

FlowDone == pc = "infoFlowDone"

\* C1 (as stated): after infoFlow finishes, totalFanIn = totalFanOut, and both
\* equal the number of resolvable call sites of the tree.
C1_FanInEqFanOutEqCallSites ==
    FlowDone =>
        /\ ifm.totalFanIn = ifm.totalFanOut
        /\ ifm.totalFanIn = Cardinality(ResolvableCallSites(ast))

\* C1 (amended): after infoFlow finishes, totalFanIn plus the number of callers
\* recorded for GLOBAL equals totalFanOut plus the number of callees recorded
\* for GLOBAL, both equal the number of distinct caller -> callee pairs, and
\* that number is at most the number of resolvable call sites.
C1_TotalsCountDistinctEdges ==
    FlowDone =>
        /\ DOMAIN callLog = ResolvableCallSites(ast)
        /\ ifm.totalFanIn + Cardinality(functions["GLOBAL"].fanIn)
              = Cardinality(RecordedEdges)
        /\ ifm.totalFanOut + Cardinality(functions["GLOBAL"].fanOut)
              = Cardinality(RecordedEdges)
        /\ Cardinality(RecordedEdges) <= Cardinality(ResolvableCallSites(ast))

\* C1 witness: a finished run where GLOBAL made a call, two call sites share
\* one edge, and the two totals differ.
C1_Witness ==
    /\ FlowDone
    /\ ifm.totalFanIn # ifm.totalFanOut
    /\ functions["GLOBAL"].fanOut # {}
    /\ Cardinality(RecordedEdges) < Cardinality(ResolvableCallSites(ast))

\* C2: for `function a(){ b(); } function b(){}` infoFlow yields function
\* count 2, fan-out of a = {b}, fan-in of b = {a}, information flow 0 for a
\* and for b, and grand total 1.
C2_ScenarioAB ==
    (FlowDone /\ ast = TreeAB) =>
        /\ ifm.functionCount = 2
        /\ functions["a"].fanOut = {"b"}
        /\ functions["b"].fanIn = {"a"}
        /\ Cardinality(functions["a"].fanIn) * Cardinality(functions["a"].fanOut) = 0
        /\ Cardinality(functions["b"].fanIn) * Cardinality(functions["b"].fanOut) = 0
        /\ ifm.grandTotal = 1

\* Function constructs without a name of their own.
AnonymousFunctions(t) ==
    {i \in 1..Len(t) :
        \/ t[i].type = "ArrowFunctionExpression"
        \/ t[i].type \in {"FunctionDeclaration", "FunctionExpression"}
             /\ t[i].name = Undefined}

Visited == (1..Len(ast)) \ {todo[k] : k \in 1..Len(todo)}

\* C6: two distinct anonymous functions of one file are never registered under
\* the same name, so functionCount counts each of them.
C6_AnonymousNeverCollide ==
    /\ \A i, j \in AnonymousFunctions(ast) \cap Visited :
           i # j => FunctionNodeName(ast[i], i) # FunctionNodeName(ast[j], j)
    /\ FlowDone => ifm.functionCount >= Cardinality(AnonymousFunctions(ast))

\* The function construct entered last before node i in depth-first order.
LastEntered(t, i) ==
    LET before == {j \in 1..(i - 1) : t[j].type \in FunctionTypes} IN
    IF before = {} THEN "GLOBAL"
    ELSE LET j == CHOOSE k \in before : \A m \in before : m <= k
         IN FunctionNodeName(t[j], j)

RECURSIVE Ancestors(_, _)
Ancestors(t, i) ==
    IF t[i].parent = 0 THEN {} ELSE {t[i].parent} \cup Ancestors(t, t[i].parent)

\* C9: the caller recorded for a call site is the function construct entered
\* last in depth-first order (GLOBAL if none): the marker is set on entering a
\* function, before any call of its body is processed, and is not reset on
\* leaving it.
C9_CallerIsLastEntered ==
    \A i \in DOMAIN callLog :
        /\ callLog[i] = LastEntered(ast, i)
        /\ \A f \in Ancestors(ast, i) : ast[f].type \in FunctionTypes => f \in Visited

\* C10: after every step of the traversal, g is in f's fan-out exactly when f
\* is in g's fan-in, every name in a fan-in or fan-out set is a key of the map,
\* and the scope marker is a key of the map.
C10_SymmetricAndClosed ==
    /\ \A f, g \in DOMAIN functions :
           g \in functions[f].fanOut <=> f \in functions[g].fanIn
    /\ \A f \in DOMAIN functions :
           functions[f].fanIn \cup functions[f].fanOut \subseteq DOMAIN functions
    /\ currentFunction \in DOMAIN functions

\* C10 witness: mid-traversal, a function other than GLOBAL has a callee.
C10_Witness ==
    /\ pc = "infoFlow"
    /\ todo # <<>>
    /\ \E f \in DOMAIN functions \ {"GLOBAL"} : functions[f].fanOut # {}

\* ------------------------------------------------------------------ claims on cyclomatic
\* The nodes cyclomatic counts: if, for, while, && and ||, ?: .
DecisionPoints(t) ==
    {i \in 1..Len(t) :
        \/ t[i].type \in {"IfStatement", "ForStatement", "WhileStatement",
                          "ConditionalExpression"}
        \/ t[i].type = "LogicalExpression" /\ t[i].name \in {"&&", "||"}}

\* C8: cyclomatic returns 1 plus the number of if, for, while, &&/|| and ?:
\* nodes; every other node kind leaves the counter as it is (so, after each
\* callback, the counter is 1 plus the decision points visited so far), and
\* the result is at least 1.
C8_OnePlusDecisionPoints ==
    pc \in {"cyclomatic", "cyclomaticDone"} =>
        /\ cc = 1 + Cardinality(DecisionPoints(ast) \cap Visited)
        /\ cc >= 1
        /\ pc = "cyclomaticDone" =>
              /\ cc = 1 + Cardinality(DecisionPoints(ast))
              /\ cc = cyclomatic(ast)

\* C8 witness: a finished count over a tree that mixes a counted node, a ??
\* and an uncounted statement kind.
C8_Witness ==
    /\ pc = "cyclomaticDone"
    /\ cc = 2
    /\ \E i, j \in 1..Len(ast) :
          /\ ast[i].type = "LogicalExpression" /\ ast[i].name = "??"
          /\ ast[j].type \in {"SwitchCase", "CatchClause", "DoWhileStatement",
                              "ForInStatement", "ForOfStatement"}

\* ------------------------------------------------------------------ claims on halstead
HalDone == pc = "halsteadDone"

\* C5 (as stated): the volume halstead returns is 0 if and only if the
\* vocabulary n = n1 + n2 is 0.
C5_VolumeZeroIffEmptyVocabulary ==
    HalDone => (h.volume = FromInt(0) <=> h.n = 0)

\* C5 (amended): the volume halstead returns is 0 if and only if the
\* vocabulary n = n1 + n2 is at most 1 (log2(1) = 0), and it is positive
\* otherwise.
C5_VolumeZeroIffVocabularyAtMostOne ==
    HalDone =>
        /\ h.n = Cardinality(operators) + Cardinality(operands)
        /\ h.volume = FromInt(0) <=> h.n <= 1
        /\ h.n >= 2 => (IsFinite(h.volume) /\ h.volume.v > 0)

\* C5 witness: a tree with one distinct symbol, used at least once: volume 0.
C5_Witness ==
    /\ HalDone
    /\ h.n = 1
    /\ h.N >= 1
    /\ h.volume = FromInt(0)

\* ------------------------------------------------------------------ claims on locMetrics
\* The lines of a text, told apart by the places of its newlines: line k runs
\* from after the (k-1)-th newline up to the k-th.
NewlineAt(text) == {p \in 1..Len(text) : text[p] = "\n"}
LineStart(text, k) ==
    IF k = 1 THEN 1
    ELSE 1 + (CHOOSE p \in NewlineAt(text) :
                 Cardinality({q \in NewlineAt(text) : q <= p}) = k - 1)
LineEnd(text, k) ==
    IF k = Cardinality(NewlineAt(text)) + 1 THEN Len(text)
    ELSE (CHOOSE p \in NewlineAt(text) :
             Cardinality({q \in NewlineAt(text) : q <= p}) = k) - 1
LineNumbers(text) == 1..(Cardinality(NewlineAt(text)) + 1)
Ink(text, k) == {p \in LineStart(text, k)..LineEnd(text, k) : text[p] \notin Whitespace}
BlankLines(text) == {k \in LineNumbers(text) : Ink(text, k) = {}}
\* the first character that is not white space is "*", or it is "/" and the
\* next character is "/" or "*"
CommentLines(text) ==
    {k \in LineNumbers(text) \ BlankLines(text) :
        LET p == Min(Ink(text, k)) IN
        \/ text[p] = "*"
        \/ /\ text[p] = "/"
           /\ p < LineEnd(text, k)
           /\ text[p + 1] \in {"/", "*"}}

\* C7: for any text, the empty one included, locMetrics returns counts >= 0
\* with total = blank + comment + code, where total is the number of
\* newline-separated lines, blank the number of lines empty after trimming and
\* comment the number of non-blank lines whose trimmed form starts with a
\* comment marker ("//", "/*" or "*").
C7_LineCountsAddUp ==
    pc = "locMetricsDone" =>
        /\ loc.total = loc.blank + loc.comment + loc.code
        /\ loc.blank >= 0 /\ loc.comment >= 0 /\ loc.code >= 0
        /\ loc.total = Cardinality(NewlineAt(code)) + 1
        /\ loc.blank = Cardinality(BlankLines(code))
        /\ loc.comment = Cardinality(CommentLines(code))
        /\ loc = locMetrics(code)

\* C7 witness: a finished count of a text with a blank line, a comment line
\* that starts with white space, and a code line.
C7_Witness ==
    /\ pc = "locMetricsDone"
    /\ loc.blank >= 1 /\ loc.comment >= 1 /\ loc.code >= 1
    /\ \E k \in 1..Len(lines) : IsComment(lines[k]) /\ lines[k] # Trim(lines[k])

\* ------------------------------------------------------------------ claims on main
AtUnparsable == InLoop /\ IsScript(files[fi]) /\ ~files[fi].parse.ok

\* C3: a script file whose parse fails still appends its code-line count to
\* the per-file list and counts in the file total, leaves every tree-derived
\* running total unchanged, and the loop goes on to process every remaining
\* file.
C3_UnparsableCountsLinesOnly ==
    /\ [][AtUnparsable =>
            /\ locArr' = Append(locArr, locMetrics(files[fi].content).code)
            /\ UNCHANGED treeTotals
            /\ fi' = fi + 1
            /\ pc' = "main"
            /\ files' = files]_vars
    /\ [](pc = "mainDone" =>
            /\ Len(locArr) = Len(files)
            /\ report.filesAnalyzed = Len(files)
            /\ report.totalLOC = SumSeq(locArr)
            /\ \A k \in 1..Len(files) :
                   locArr[k] = locMetrics(files[k].content).code)

\* C3 witness: a finished run over an unparsable script followed by a valid
\* one, whose metrics were folded in.
C3_Witness ==
    /\ pc = "mainDone"
    /\ Len(files) >= 2
    /\ IsScript(files[1]) /\ ~files[1].parse.ok
    /\ IsScript(files[2]) /\ files[2].parse.ok
    /\ liveTotals.liveFileCount >= 1
    /\ ccTotal >= 1
    /\ report.totalLOC > locArr[2]

\* C4: on every degenerate input (no files, empty vocabulary, no functions)
\* every derived value (dispersion mean, variance and stdDev, Halstead volume
\* and what is derived from it, the averages, the Maintainability Index) is a
\* finite number.
C4_DerivedValuesFinite ==
    pc = "mainDone" =>
        /\ IsFinite(report.disp.mean)
        /\ IsFinite(report.disp.variance)
        /\ IsFinite(report.disp.stdDev)
        /\ IsFinite(totalHalstead.volume)
        /\ IsFinite(totalHalstead.effort)
        /\ IsFinite(totalHalstead.time)
        /\ IsFinite(totalHalstead.bugs)
        /\ IsFinite(report.avgFanIn)
        /\ IsFinite(report.avgFanOut)
        /\ IsFinite(report.avgLive)
        /\ IsFinite(report.MI)

\* ------------------------------------------------------------------ claims on the two entry points
BothDone == pc = "mainDone" /\ part000.pc = "mainDone"

\* The running totals the two loops fold: per-file code lines, cyclomatic
\* total, Halstead sums, information-flow sums, declared/live variable sums.
SameTotals ==
    /\ part000.locArr = locArr
    /\ part000.ccTotal = ccTotal
    /\ part000.totalHalstead = totalHalstead
    /\ part000.infoFlowSummary = infoFlowSummary
    /\ part000.liveTotals = liveTotals

\* C11 (as stated): run on the same files, the two entry points end with
\* identical running totals, and one Maintainability Index is the exact
\* negation of the other.
C11_SameTotalsExactNegation ==
    BothDone =>
        /\ SameTotals
        /\ part000.report.MI = JsNeg(report.MI)

\* The spacing of the representable values around a value of size v.
Ulp(v) ==
    IF BitLength(Abs(v)) <= MantissaBits THEN 1
    ELSE 2 ^ (BitLength(Abs(v)) - MantissaBits)

NonZeroTerms ==
    LET z == FromInt(0) IN
    {t \in {"volume", "complexity", "size"} :
        \/ t = "volume" /\ VolumeTerm(totalHalstead.volume) # z
        \/ t = "complexity" /\ ComplexityTerm(ccTotal) # z
        \/ t = "size" /\ SizeTerm(report.totalLOC) # z}

\* C11 (amended): run on the same files, the two entry points end with
\* identical running totals, and their Maintainability Index values are
\* negations of each other up to the rounding of the additions: both are
\* finite, their sum is at most 3 units in the last place of
\* 171 + the three terms, and it is exactly 0 when at most one term is not 0.
C11_SameTotalsNegationUpToRounding ==
    BothDone =>
        /\ SameTotals
        /\ IsFinite(report.MI) /\ IsFinite(part000.report.MI)
        /\ Abs(report.MI.v + part000.report.MI.v)
              <= 3 * Ulp(171 * Scale + VolumeTerm(totalHalstead.volume).v
                           + ComplexityTerm(ccTotal).v + SizeTerm(report.totalLOC).v)
        /\ Cardinality(NonZeroTerms) <= 1 => part000.report.MI = JsNeg(report.MI)

\* C11 witness: both runs finished over files that include a parsed script
\* and an unparsable one, and the two indices are not exact negations.
C11_Witness ==
    /\ BothDone
    /\ \E k \in 1..Len(files) : IsScript(files[k]) /\ ~files[k].parse.ok
    /\ liveTotals.liveFileCount >= 1
    /\ totalHalstead.volume # FromInt(0)
    /\ part000.report.MI # JsNeg(report.MI)

====
